---- MODULE Spec2Model ----
(***************************************************************************)
(* Evaluation harness of palimpzest/utils/experiment_utils.py:             *)
(*   load_ground_truth        (lines 15-87)                                *)
(*   compute_f1               (lines 90-124)                               *)
(*   write_results_and_plans  (lines 127-202)                              *)
(*                                                                         *)
(* Text is a sequence of tokens.  A token is a blank (" ") or a run of     *)
(* letters; str.lower acts token by token, str.strip drops the blanks at   *)
(* both ends and the substring test is containment of a contiguous run of  *)
(* tokens.  The tokens used below are chosen so that no token's letters    *)
(* occur inside another token that takes part in a substring test.         *)
(***************************************************************************)
EXTENDS Integers, Sequences, FiniteSets, TLC

VARIABLES
    workload,          \* the workload tag handed to all three functions
    gt_path,           \* the ground-truth file: [kind, table]
    dataset_dir,       \* the reference directory: [kind, names]
    loaded,            \* outcome of load_ground_truth: [raised, value]
    gt_data,           \* the index handed to compute_f1 (an ordered dict)
    results,           \* compute_f1: the result records; report: the run list
    score,             \* outcome of compute_f1: [stage, y_true, y_pred, p, r, f1]
    pc,                \* position of the caller's script / of the reporting loop
    results_iterable,  \* write_results_and_plans: the argument as passed
    idx,               \* write_results_and_plans: ordinal of the last run entered
    all_results,       \* write_results_and_plans: accumulated summary rows
    plan_files,        \* plan_details_dir: a function from file names to contents
    output_csv,        \* the summary table: [writes, rows], writes counting to_csv
    probe,             \* cost/time extracted for the run entered last
    io                 \* outcome of the plan-file write of each run that got a row

vars == <<workload, gt_path, dataset_dir, loaded, gt_data, results, score, pc,
          results_iterable, idx, all_results, plan_files, output_csv, probe, io>>

loadVars   == <<workload, gt_path, dataset_dir, loaded, gt_data, results, score>>
reportVars == <<results_iterable, idx, all_results, plan_files, output_csv, probe, io>>

-----------------------------------------------------------------------------
(* Bounds of the model.                                                    *)
MaxRows == 2
MaxResults == 1
MaxGt == 2
MaxRecs == 2
MaxRuns == 3

-----------------------------------------------------------------------------
(* Python values that are no text: one reserved token each, which no text   *)
(* contains.                                                               *)
None   == <<"#None">>    \* the None object
NaN    == <<"#NaN">>     \* pandas' float nan, the value of an empty cell
Absent == <<"#Absent">>  \* a column, an attribute or a file that does not exist

Range(s) == {s[i] : i \in DOMAIN s}

(* str.lower on one token                                                  *)
LowerTok(t) ==
    CASE t = "A"       -> "a"
      [] t = "B"       -> "b"
      [] t = "Label"   -> "label"
      [] t = "Missing" -> "missing"
      [] t = "SrcA"    -> "srca"
      [] t = "SrcB"    -> "srcb"
      [] OTHER         -> t

(* str.lower                                                               *)
lower(s) == [i \in DOMAIN s |-> LowerTok(s[i])]

RECURSIVE lstrip(_)
lstrip(s) == IF s # <<>> /\ Head(s) = " " THEN lstrip(Tail(s)) ELSE s

RECURSIVE rstrip(_)
rstrip(s) == IF s # <<>> /\ s[Len(s)] = " " THEN rstrip(SubSeq(s, 1, Len(s) - 1)) ELSE s

(* str.strip                                                               *)
strip(s) == rstrip(lstrip(s))

(* k in s, for strings                                                     *)
Contains(s, k) ==
    \E i \in 0..(Len(s) - Len(k)) : SubSeq(s, i + 1, i + Len(k)) = k

(* A cell of a column that read_csv parsed as integers: the reserved token  *)
(* and the digit.                                                          *)
IntCell(digit) == <<"#int", digit>>
IsInt(cell) == Len(cell) = 2 /\ cell[1] = "#int"

(* str(cell): an empty cell is the float nan and prints as "nan"           *)
Str(cell) ==
    IF cell = NaN THEN <<"nan">>
    ELSE IF IsInt(cell) THEN <<cell[2]>>
    ELSE cell

(* not cell: the empty string and the number 0                             *)
Falsy(cell) == cell = <<>> \/ cell = IntCell("0")

(* int(cell): a digit, blanks around it allowed; anything else, and nan,   *)
(* raises                                                                  *)
IntParse(cell) ==
    IF cell = NaN THEN [ok |-> FALSE, val |-> 0]
    ELSE LET t == strip(Str(cell)) IN
         IF t = <<"1">> THEN [ok |-> TRUE, val |-> 1]
         ELSE IF t = <<"0">> THEN [ok |-> TRUE, val |-> 0]
         ELSE [ok |-> FALSE, val |-> 0]

-----------------------------------------------------------------------------
(* A dict: a sequence of <<key, value>> with distinct keys, in insertion   *)
(* order.                                                                  *)
Keys(d) == [i \in DOMAIN d |-> d[i][1]]
KeySet(d) == {d[i][1] : i \in DOMAIN d}
HasKey(d, k) == \E i \in DOMAIN d : d[i][1] = k
Get(d, k) == d[CHOOSE i \in DOMAIN d : d[i][1] = k][2]
(* d[k] = v: an existing key keeps its place                               *)
Put(d, k, v) ==
    IF HasKey(d, k)
    THEN [i \in DOMAIN d |-> IF d[i][1] = k THEN <<k, v>> ELSE d[i]]
    ELSE Append(d, <<k, v>>)

-----------------------------------------------------------------------------
(* The data frame of line 20-21: column names stripped and lower-cased.    *)
Columns(table) == [i \in DOMAIN table.columns |-> lower(strip(table.columns[i]))]

HasColumn(table, c) == \E i \in DOMAIN table.columns : Columns(table)[i] = c

(* row.get(c) / row[c] for a column the frame has                          *)
Cell(table, row, c) ==
    row[CHOOSE i \in DOMAIN table.columns : Columns(table)[i] = c]

(* the candidate loop without its break: the last candidate present wins  *)
RECURSIVE FirstCandidate_NoBreak(_, _)
FirstCandidate_NoBreak(table, cands) ==
    IF cands = <<>> THEN Absent
    ELSE IF HasColumn(table, cands[Len(cands)]) THEN cands[Len(cands)]
    ELSE FirstCandidate_NoBreak(table, SubSeq(cands, 1, Len(cands) - 1))

(* for cand in cands: if cand in df.columns: ... break                     *)
RECURSIVE FirstCandidate(_, _)
FirstCandidate(table, cands) ==
    IF cands = <<>> THEN Absent
    ELSE IF HasColumn(table, Head(cands)) THEN Head(cands)
    ELSE FirstCandidate(table, Tail(cands))

EnronNameCands  == << <<"filename">>, <<"file">>, <<"name">> >>
EnronLabelCands == << <<"label">>, <<"y">>, <<"target">> >>
ListingCands    == << <<"listing">>, <<"filename">>, <<"id">>, <<"name">> >>

(* set(os.listdir(d)) if os.path.exists(d) else set(); listdir of a path   *)
(* that exists and is no directory raises                                  *)
ListDir(dir) ==
    CASE dir.kind = "missing" -> [raised |-> FALSE, value |-> {}]
      [] dir.kind = "file"    -> [raised |-> TRUE,  value |-> {}]
      [] OTHER                -> [raised |-> FALSE, value |-> dir.names]

(* lines 29-35 *)
EnronName(table, row) ==
    LET cand  == FirstCandidate(table, EnronNameCands)
        fname == IF cand = Absent THEN <<>> ELSE strip(Str(Cell(table, row, cand)))
    IN  IF fname = <<>> THEN strip(Str(row[1])) ELSE fname

(* lines 37-46 *)
EnronLabel(table, row) ==
    LET cand == FirstCandidate(table, EnronLabelCands)
    IN  IF cand = Absent THEN 1
        ELSE LET n == IntParse(Cell(table, row, cand))
             IN  IF n.ok THEN n.val ELSE 1

(* lines 28-49: the loop over the rows                                     *)
RECURSIVE EnronRows(_, _, _, _)
EnronRows(table, rows, actual_files, gt) ==
    IF rows = <<>> THEN gt
    ELSE LET row   == Head(rows)
             fname == EnronName(table, row)
             label == EnronLabel(table, row)
         IN  EnronRows(table, Tail(rows), actual_files,
                       IF fname \in actual_files THEN Put(gt, fname, label) ELSE gt)

(* lines 58-65: Absent when the row is skipped                             *)
ListingId(table, row) ==
    LET cand == FirstCandidate(table, ListingCands)
    IN  IF cand = Absent THEN Absent
        ELSE IF Falsy(Cell(table, row, cand)) THEN Absent
        ELSE strip(Str(Cell(table, row, cand)))

(* line 66: int(row[label_col]) if label_col else 1, not guarded           *)
ListingLabel(table, row) ==
    IF HasColumn(table, <<"label">>) THEN IntParse(Cell(table, row, <<"label">>))
    ELSE [ok |-> TRUE, val |-> 1]

(* lines 57-68: the loop over the rows; a label that does not parse ends   *)
(* the call with the exception                                             *)
RECURSIVE ListingRows(_, _, _, _)
ListingRows(table, rows, actual_listings, gt) ==
    IF rows = <<>> THEN [raised |-> FALSE, value |-> gt]
    ELSE LET row        == Head(rows)
             listing_id == ListingId(table, row)
             label      == ListingLabel(table, row)
         IN  IF listing_id = Absent
             THEN ListingRows(table, Tail(rows), actual_listings, gt)
             ELSE IF ~label.ok THEN [raised |-> TRUE, value |-> <<>>]
             ELSE ListingRows(table, Tail(rows), actual_listings,
                              IF listing_id \in actual_listings
                              THEN Put(gt, listing_id, label.val) ELSE gt)

(* lines 78-84: the rows of one author column                              *)
RECURSIVE AuthorRows(_, _, _, _)
AuthorRows(table, rows, author, targets) ==
    IF rows = <<>> THEN targets
    ELSE LET row          == Head(rows)
             attr         == row[1]
             original_col == Str(Cell(table, row, author))
             should_exist == /\ lower(original_col) # <<"missing">>
                             /\ lower(original_col) # <<"nan">>
         IN  AuthorRows(table, Tail(rows), author,
                        Put(targets, strip(Str(attr)), should_exist))

(* lines 75-84: the loop over the author columns                           *)
RECURSIVE AuthorColumns(_, _, _)
AuthorColumns(table, authors, gt_map) ==
    IF authors = <<>> THEN gt_map
    ELSE LET author == Head(authors)
             key    == strip(lower(author))
         IN  AuthorColumns(table, Tail(authors),
                           Put(gt_map, key, AuthorRows(table, table.rows, author, <<>>)))

(* lines 15-87 *)
load_ground_truth(wl, path, dir) ==
    IF path.kind \in {"empty", "missing"} THEN [raised |-> FALSE, value |-> <<>>]
    ELSE IF path.kind \in {"unreadable", "malformed"} THEN [raised |-> FALSE, value |-> <<>>]
    ELSE LET df == path.table IN
         CASE wl = "enron" ->
                LET ls == ListDir(dir) IN
                IF ls.raised THEN [raised |-> TRUE, value |-> <<>>]
                ELSE [raised |-> FALSE, value |-> EnronRows(df, df.rows, ls.value, <<>>)]
           [] wl = "real-estate" ->
                LET ls == ListDir(dir) IN
                IF ls.raised THEN [raised |-> TRUE, value |-> <<>>]
                ELSE ListingRows(df, df.rows, ls.value, <<>>)
           [] wl = "medical-schema-matching" ->
                [raised |-> FALSE,
                 value  |-> AuthorColumns(df, SubSeq(Columns(df), 2, Len(Columns(df))), <<>>)]
           [] OTHER -> [raised |-> FALSE, value |-> <<>>]

-----------------------------------------------------------------------------
(* Scores: a fraction [num, den]; 0/0 is 0 (zero_division=0).              *)
Frac(n, d) ==
    IF d = 0 \/ n = 0 THEN [num |-> 0, den |-> 1]
    ELSE IF n = d THEN [num |-> 1, den |-> 1]
    ELSE [num |-> n, den |-> d]

Zero == Frac(0, 1)
One  == Frac(1, 1)

Count(y_true, y_pred, t, p) ==
    Cardinality({i \in DOMAIN y_true : y_true[i] = t /\ y_pred[i] = p})

(* sklearn precision_score / recall_score / f1_score, zero_division=0:     *)
(* average='binary' counts the positive class 1; average='micro' sums the  *)
(* counts of both classes, which makes all three the share of equal pairs  *)
precision_score(y_true, y_pred, average) ==
    IF average = "binary"
    THEN Frac(Count(y_true, y_pred, 1, 1),
              Count(y_true, y_pred, 1, 1) + Count(y_true, y_pred, 0, 1))
    ELSE Frac(Count(y_true, y_pred, 1, 1) + Count(y_true, y_pred, 0, 0), Len(y_true))

recall_score(y_true, y_pred, average) ==
    IF average = "binary"
    THEN Frac(Count(y_true, y_pred, 1, 1),
              Count(y_true, y_pred, 1, 1) + Count(y_true, y_pred, 1, 0))
    ELSE Frac(Count(y_true, y_pred, 1, 1) + Count(y_true, y_pred, 0, 0), Len(y_true))

f1_score(y_true, y_pred, average) ==
    IF average = "binary"
    THEN Frac(2 * Count(y_true, y_pred, 1, 1),
              2 * Count(y_true, y_pred, 1, 1) + Count(y_true, y_pred, 0, 1)
                                             + Count(y_true, y_pred, 1, 0))
    ELSE Frac(Count(y_true, y_pred, 1, 1) + Count(y_true, y_pred, 0, 0), Len(y_true))

-----------------------------------------------------------------------------
(* A result record: a function from attribute names to values (text or     *)
(* None).                                                                  *)
HasAttr(r, a) == a \in DOMAIN r
GetAttr(r, a, default) == IF a \in DOMAIN r THEN r[a] ELSE default

(* line 97 *)
KeyAttr(wl) == IF wl = "enron" THEN <<"filename">> ELSE <<"listing">>

(* line 98: .strip() on a value that is no text raises                     *)
PredictedRaises(res, wl) ==
    \E i \in DOMAIN res : HasAttr(res[i], KeyAttr(wl)) /\ res[i][KeyAttr(wl)] = None

(* line 98 without the .strip()                                            *)
predicted_positives_NoStrip(res, wl) ==
    {res[i][KeyAttr(wl)] : i \in {j \in DOMAIN res : HasAttr(res[j], KeyAttr(wl))}}

predicted_positives(res, wl) ==
    {strip(res[i][KeyAttr(wl)]) : i \in {j \in DOMAIN res : HasAttr(res[j], KeyAttr(wl))}}

(* lines 100-102 *)
FlatTrue(gt) == [i \in DOMAIN gt |-> gt[i][2]]

(* line 102 with the two outcomes exchanged                                *)
FlatPred_Swapped(gt, predicted) ==
    [i \in DOMAIN gt |-> IF gt[i][1] \in predicted THEN 0 ELSE 1]

FlatPred(gt, predicted) == [i \in DOMAIN gt |-> IF gt[i][1] \in predicted THEN 1 ELSE 0]

(* line 107 with the first key of the dict as the default of next()        *)
MatchedKey_DefaultFirst(gt, record) ==
    LET raw   == GetAttr(record, <<"filename">>, <<>>)
        fname == IF raw = None \/ raw = <<>> THEN <<>> ELSE raw
        hits  == {i \in DOMAIN gt : Contains(lower(fname), gt[i][1])}
    IN  IF hits = {} THEN gt[1][1]
        ELSE gt[CHOOSE i \in hits : \A j \in hits : i <= j][1]

(* line 106-107: Absent when no key matches; the first key in the dict's   *)
(* order otherwise                                                         *)
MatchedKey(gt, record) ==
    LET raw   == GetAttr(record, <<"filename">>, <<>>)
        fname == IF raw = None \/ raw = <<>> THEN <<>> ELSE raw
        hits  == {i \in DOMAIN gt : Contains(lower(fname), gt[i][1])}
    IN  IF hits = {} THEN Absent
        ELSE gt[CHOOSE i \in hits : \A j \in hits : i <= j][1]

(* line 108: `if not matched_key: continue` also skips the empty key       *)
Skipped(gt, record) == MatchedKey(gt, record) = Absent \/ MatchedKey(gt, record) = <<>>

(* lines 110-115: the entries one record adds                              *)
RecordTrue(gt, record) ==
    IF Skipped(gt, record) THEN <<>>
    ELSE LET targets == Get(gt, MatchedKey(gt, record))
         IN  [i \in DOMAIN targets |-> IF targets[i][2] THEN 1 ELSE 0]

RecordPred(gt, record) ==
    IF Skipped(gt, record) THEN <<>>
    ELSE LET targets == Get(gt, MatchedKey(gt, record))
         IN  [i \in DOMAIN targets |->
                LET val == GetAttr(record, targets[i][1], None)
                IN  IF val # None /\ strip(val) # <<>> THEN 1 ELSE 0]

(* lines 105-115: the loop over the records                                *)
RECURSIVE NestedTrue(_, _)
NestedTrue(gt, res) ==
    IF res = <<>> THEN <<>> ELSE RecordTrue(gt, Head(res)) \o NestedTrue(gt, Tail(res))

RECURSIVE NestedPred(_, _)
NestedPred(gt, res) ==
    IF res = <<>> THEN <<>> ELSE RecordPred(gt, Head(res)) \o NestedPred(gt, Tail(res))

Returned(stage, y_true, y_pred, p, r, f1) ==
    [stage |-> stage, y_true |-> y_true, y_pred |-> y_pred, p |-> p, r |-> r, f1 |-> f1]

(* lines 94-124: the vectors and the three scores                          *)
ScoreVectors(res, gt, wl) ==
    IF wl \in {"enron", "real-estate"} /\ PredictedRaises(res, wl)
    THEN Returned("raised", <<>>, <<>>, Zero, Zero, Zero)
    ELSE LET y_true == CASE wl \in {"enron", "real-estate"} -> FlatTrue(gt)
                         [] wl = "medical-schema-matching" -> NestedTrue(gt, res)
                         [] OTHER -> <<>>
             y_pred == CASE wl \in {"enron", "real-estate"} ->
                              FlatPred(gt, predicted_positives(res, wl))
                         [] wl = "medical-schema-matching" -> NestedPred(gt, res)
                         [] OTHER -> <<>>
             avg_method == IF wl # "medical-schema-matching" THEN "binary" ELSE "micro"
         IN  IF y_true = <<>> THEN Returned("no_entries", y_true, y_pred, Zero, Zero, Zero)
             ELSE Returned("scored", y_true, y_pred,
                           precision_score(y_true, y_pred, avg_method),
                           recall_score(y_true, y_pred, avg_method),
                           f1_score(y_true, y_pred, avg_method))

(* compute_f1 with the guard of lines 91-92 left out                       *)
compute_f1_NoEarlyReturn(res, gt, wl) == ScoreVectors(res, gt, wl)

(* lines 90-124.  stage: "no_gt" (line 92), "raised" (line 98),            *)
(* "no_entries" (line 117), "scored" (line 124)                            *)
compute_f1(res, gt, wl) ==
    IF gt = <<>> THEN Returned("no_gt", <<>>, <<>>, Zero, Zero, Zero)
    ELSE ScoreVectors(res, gt, wl)

-----------------------------------------------------------------------------
(* Inputs of the loading and scoring pipeline.                             *)
SeqsUpTo(S, n) == UNION {[1..k -> S] : k \in 0..n}

Workloads == {"enron", "real-estate", "medical-schema-matching", "other"}

(* Raw header rows: column names as the file spells them.                  *)
Layouts ==
    { << <<"filename">>, <<" ", "Label">> >>,
      << <<"name">>, <<"filename">> >>,
      << <<"other">>, <<"label">> >>,
      << <<"listing">>, <<"label">> >>,
      << <<"filename">>, <<"listing">> >>,
      << <<"id">> >>,
      << <<"attr">>, <<"SrcA", " ">> >>,
      << <<"filename">> >> }

(* The cells a column may hold, by its normalized name.                    *)
CellsOf(c) ==
    CASE c = <<"label">> -> { <<"1">>, <<"0">>, <<"x">> }
      [] c = <<"srca">>  -> { <<"1">>, <<"Missing">>, NaN }
      [] c = <<"id">>    -> { IntCell("0"), IntCell("1") }
      [] OTHER           -> { <<"a", " ">>, <<"A">>, <<" ">> }

AllCells ==
    { <<"1">>, <<"0">>, <<"x">>, <<"Missing">>, NaN, <<"a", " ">>, <<"A">>, <<" ">>,
      IntCell("0"), IntCell("1") }

RowsOf(layout) ==
    {row \in [1..Len(layout) -> AllCells] :
        \A i \in 1..Len(layout) : row[i] \in CellsOf(lower(strip(layout[i])))}

Tables ==
    UNION {{[columns |-> layout, rows |-> rows] : rows \in SeqsUpTo(RowsOf(layout), MaxRows)}
           : layout \in Layouts}

NoTable == [columns |-> <<>>, rows |-> <<>>]

(* gt_path: no path given, no such file, a file read_csv cannot read or    *)
(* cannot parse, or a table                                                *)
GtPaths ==
    {[kind |-> k, table |-> NoTable] : k \in {"empty", "missing", "unreadable", "malformed"}}
    \cup {[kind |-> "ok", table |-> t] : t \in Tables}

(* dataset_dir: no such path, a path that is a file, or a directory        *)
Dirs ==
    { [kind |-> "missing", names |-> {}],
      [kind |-> "file",    names |-> {}],
      [kind |-> "dir",     names |-> { <<"a">> }],
      [kind |-> "dir",     names |-> { <<"a">>, <<"A">>, <<"0">> }] }

Record(filename, listing) ==
    (<<"filename">> :> filename) @@ (<<"listing">> :> listing)

LoadRecords ==
    { Record(<<"a">>, <<"a">>),
      Record(<<" ", "A">>, <<"A", " ">>),
      (<<"filename">> :> <<"SrcA", "_x">>) @@ (<<"a">> :> <<"1">>),
      (<<"other">> :> <<"a">>) }

NotCalled == [raised |-> FALSE, value |-> <<>>]
NotScored == Returned("not_called", <<>>, <<>>, Zero, Zero, Zero)

NotWritten == [writes |-> 0, rows |-> <<>>]
NoProbe == [cost |-> <<>>, time |-> <<>>]

ReportIdle ==
    /\ results_iterable = [kind |-> "list", runs |-> <<>>]
    /\ idx = 0
    /\ all_results = <<>>
    /\ plan_files = <<>>
    /\ output_csv = NotWritten
    /\ probe = NoProbe
    /\ io = <<>>

Init ==
    /\ workload \in Workloads
    /\ gt_path \in GtPaths
    /\ dataset_dir \in Dirs
    /\ loaded = NotCalled
    /\ gt_data = <<>>
    /\ results = <<>>
    /\ score = NotScored
    /\ pc = "start"
    /\ ReportIdle

(* The caller loads the index ...                                          *)
Load ==
    /\ pc = "start"
    /\ loaded' = load_ground_truth(workload, gt_path, dataset_dir)
    /\ gt_data' = IF loaded'.raised THEN gt_data ELSE loaded'.value
    /\ pc' = IF loaded'.raised THEN "raised" ELSE "loaded"
    /\ UNCHANGED <<workload, gt_path, dataset_dir, results, score>>
    /\ UNCHANGED reportVars

(* ... and scores a result set against it.                                 *)
Score ==
    /\ pc = "loaded"
    /\ \E res \in SeqsUpTo(LoadRecords, MaxResults) :
          /\ results' = res
          /\ score' = compute_f1(res, gt_data, workload)
    /\ pc' = "scored"
    /\ UNCHANGED <<workload, gt_path, dataset_dir, loaded, gt_data>>
    /\ UNCHANGED reportVars

Next == Load \/ Score

Spec == Init /\ [][Next]_vars

-----------------------------------------------------------------------------
(* Claims about the loader and the scorer, checked under Spec.             *)
Flat == {"enron", "real-estate"}
Called == pc \in {"loaded", "scored"}
Normalized(k) == k = lower(strip(k))
Trimmed(k) == k = strip(k)

(* C1 (as stated): load_ground_truth never raises to its caller, whatever  *)
(* the workload tag and the ground-truth path; in the flat-variant         *)
(* workloads a label cell that does not parse gives label 1, not an error. *)
(* Stated for a reference directory argument that is a directory or does   *)
(* not exist.                                                              *)
C1_NeverRaises == dataset_dir.kind # "file" => pc # "raised"

(* C8 (as stated): with the ground-truth file missing or the reference     *)
(* directory missing, for every workload and every non-empty result set,   *)
(* the score of the loaded index is 0.0; an empty index scores 0.0 with no *)
(* vector built.                                                           *)
C8_EmptyInputsScoreZero_AllWorkloads ==
    pc = "scored" =>
        /\ (/\ gt_path.kind = "missing" \/ dataset_dir.kind = "missing"
            /\ results # <<>>) => score.f1 = Zero
        /\ gt_data = <<>> => score.stage = "no_gt" /\ score.f1 = Zero

(* C8 (amended): with the ground-truth file missing (any workload), or the *)
(* reference directory missing and a flat-variant workload, the loaded     *)
(* index is empty and every non-empty result set scores 0.0; an empty      *)
(* index scores 0.0 with no vector built.                                  *)
C8_EmptyInputsScoreZero ==
    pc = "scored" =>
        /\ (/\ \/ gt_path.kind = "missing"
               \/ dataset_dir.kind = "missing" /\ workload \in Flat
            /\ results # <<>>) => gt_data = <<>> /\ score.f1 = Zero
        /\ gt_data = <<>> =>
              /\ score.stage = "no_gt" /\ score.f1 = Zero
              /\ score.y_true = <<>> /\ score.y_pred = <<>>

C8_Witness ==
    /\ pc = "scored" /\ workload = "enron" /\ results # <<>>
    /\ gt_path.kind = "ok" /\ gt_path.table.rows # <<>>
    /\ dataset_dir.kind = "missing"
    /\ score.stage = "no_gt"

(* The identifier a flat-variant record is looked up by.                   *)
RecordIds(res, wl) ==
    {res[j][KeyAttr(wl)] : j \in {i \in DOMAIN res : HasAttr(res[i], KeyAttr(wl))}}

(* C9 (as stated): every key of the loaded index is lower-cased and        *)
(* trimmed, and compute_f1 compares the lower-cased, trimmed identifier of *)
(* a record with the keys.                                                 *)
C9_KeysLowerTrimmed ==
    Called =>
        /\ \A k \in KeySet(gt_data) : Normalized(k)
        /\ (pc = "scored" /\ workload \in Flat /\ score.stage = "scored") =>
              \A i \in DOMAIN gt_data :
                 score.y_pred[i] = 1 <=>
                    \E id \in RecordIds(results, workload) :
                        lower(strip(id)) = lower(strip(gt_data[i][1]))

(* C9 (amended): every key of the loaded index is trimmed, and the source  *)
(* keys of the nested variant are lower-cased too; flat-variant keys keep  *)
(* their letter case.  compute_f1 trims a flat-variant record identifier   *)
(* without folding its case, and lower-cases a nested-variant filename:    *)
(* identifiers that differ only in surrounding whitespace are the same     *)
(* entity, flat-variant identifiers that differ in case are not.           *)
C9_KeysTrimmed ==
    Called =>
        /\ \A k \in KeySet(gt_data) : Trimmed(k)
        /\ workload = "medical-schema-matching" =>
              \A k \in KeySet(gt_data) : Normalized(k)
        /\ (pc = "scored" /\ workload \in Flat /\ score.stage = "scored") =>
              \A i \in DOMAIN gt_data :
                 score.y_pred[i] = 1 <=>
                    \E id \in RecordIds(results, workload) : strip(id) = gt_data[i][1]
        /\ (pc = "scored" /\ workload = "medical-schema-matching"
                         /\ score.y_true # <<>>) =>
              \E i \in DOMAIN results : \E k \in KeySet(gt_data) :
                 /\ HasAttr(results[i], <<"filename">>)
                 /\ Contains(lower(results[i][<<"filename">>]), k)

C9_Witness ==
    /\ pc = "scored" /\ workload = "enron"
    /\ gt_data = << << <<"A">>, 1 >> >>
    /\ results = << Record(<<" ", "A">>, <<"A", " ">>) >>
    /\ score.y_pred = <<1>>

(* The identifier column C10 names: the first candidate name, in priority  *)
(* order, that the table has.                                              *)
EnronIdColumn(table) ==
    CASE HasColumn(table, <<"filename">>) -> <<"filename">>
      [] HasColumn(table, <<"file">>)     -> <<"file">>
      [] HasColumn(table, <<"name">>)     -> <<"name">>
      [] OTHER                            -> Absent

ListingIdColumn(table) ==
    CASE HasColumn(table, <<"listing">>)  -> <<"listing">>
      [] HasColumn(table, <<"filename">>) -> <<"filename">>
      [] HasColumn(table, <<"id">>)       -> <<"id">>
      [] HasColumn(table, <<"name">>)     -> <<"name">>
      [] OTHER                            -> Absent

IdColumn(wl, table) == IF wl = "enron" THEN EnronIdColumn(table) ELSE ListingIdColumn(table)

Listing == IF dataset_dir.kind = "dir" THEN dataset_dir.names ELSE {}

(* C10 (as stated): in both flat-variant workloads a row's identifier is   *)
(* the cell of the first candidate column the table has, or of the first   *)
(* column when it has none; the index holds exactly the trimmed            *)
(* identifiers that are names of the reference directory.                  *)
C10_StatedIds ==
    LET t == gt_path.table
        c == IdColumn(workload, t)
    IN  {strip(Str(IF c = Absent THEN t.rows[i][1] ELSE Cell(t, t.rows[i], c)))
            : i \in DOMAIN t.rows}

C10_IndexIsListedIds_FirstColumnFallback ==
    (Called /\ workload \in Flat /\ gt_path.kind = "ok") =>
        KeySet(gt_data) = C10_StatedIds \cap Listing

(* C10 (amended): in enron a row's identifier is the trimmed cell of the   *)
(* first candidate column (filename, file, name) the table has, and the    *)
(* trimmed cell of the first column when no candidate is present or that   *)
(* cell is blank; in real-estate it is the trimmed cell of the first       *)
(* candidate column (listing, filename, id, name); a row is skipped when   *)
(* the table has no candidate column or the cell is an empty string or the *)
(* number 0.  The returned index holds exactly the identifiers that are    *)
(* names of the reference directory.                                       *)
C10_AmendedIds ==
    LET t == gt_path.table
        c == IdColumn(workload, t)
    IN  IF workload = "enron"
        THEN {IF c = Absent \/ strip(Str(Cell(t, t.rows[i], c))) = <<>>
              THEN strip(Str(t.rows[i][1]))
              ELSE strip(Str(Cell(t, t.rows[i], c))) : i \in DOMAIN t.rows}
        ELSE IF c = Absent THEN {}
        ELSE {strip(Str(Cell(t, t.rows[i], c)))
                : i \in {j \in DOMAIN t.rows :
                            /\ Cell(t, t.rows[j], c) # <<>>
                            /\ Cell(t, t.rows[j], c) # IntCell("0")}}

C10_IndexIsListedIds ==
    (Called /\ workload \in Flat /\ gt_path.kind = "ok") =>
        KeySet(gt_data) = C10_AmendedIds \cap Listing

C10_Witness ==
    /\ pc = "loaded" /\ workload = "enron"
    /\ gt_path.kind = "ok"
    /\ gt_path.table.columns = << <<"name">>, <<"filename">> >>
    /\ gt_path.table.rows = << << <<"A">>, <<"a", " ">> >> >>
    /\ dataset_dir.names = { <<"a">>, <<"A">>, <<"0">> }
    /\ KeySet(gt_data) = { <<"a">> }

-----------------------------------------------------------------------------
(* compute_f1 on indexes given directly: SpecScore.                        *)

(* Dicts with at most n entries, keys from K (distinct), values from V.    *)
Dicts(K, V, n) ==
    {d \in SeqsUpTo(K \X V, n) : \A i, j \in DOMAIN d : d[i][1] = d[j][1] => i = j}

FlatIds == { <<"a">>, <<"b">>, <<"A">> }
FlatIndexes == Dicts(FlatIds, {0, 1}, MaxGt)

FlatRecords ==
    {Record(v, v) : v \in { <<"a">>, <<" ", "a">>, <<"b">>, <<"A">>, None }}
    \cup { (<<"other">> :> <<"a">>) }

SourceKeys == { <<"srca">>, <<"srcb">>, <<>> }
TargetSets ==
    { <<>>,
      << << <<"age">>, TRUE >> >>,
      << << <<"age">>, TRUE >>, << <<"name">>, FALSE >> >> }
NestedIndexes == Dicts(SourceKeys, TargetSets, MaxGt)

NestedRecords ==
    {(<<"filename">> :> f) : f \in { <<"SrcA", "_x">>, <<"srcb">>, <<"other">>, None }}
    \cup {(<<"filename">> :> f) @@ (<<"age">> :> <<"1">>)
            : f \in { <<"SrcA", "_x">>, <<"srcb">>, <<"other">>, None }}
    \cup { (<<"age">> :> <<" ">>) }

InitScore ==
    /\ workload \in {"enron", "real-estate", "medical-schema-matching"}
    /\ gt_path = [kind |-> "empty", table |-> NoTable]
    /\ dataset_dir = [kind |-> "missing", names |-> {}]
    /\ loaded = NotCalled
    /\ \/ /\ workload \in Flat
          /\ gt_data \in FlatIndexes
          /\ results \in SeqsUpTo(FlatRecords, MaxRecs)
       \/ /\ workload = "medical-schema-matching"
          /\ gt_data \in NestedIndexes
          /\ results \in SeqsUpTo(NestedRecords, MaxRecs)
    /\ score = NotScored
    /\ pc = "loaded"
    /\ ReportIdle

Evaluate ==
    /\ pc = "loaded"
    /\ score' = compute_f1(results, gt_data, workload)
    /\ pc' = "scored"
    /\ UNCHANGED <<workload, gt_path, dataset_dir, loaded, gt_data, results>>
    /\ UNCHANGED reportVars

NextScore == Evaluate

SpecScore == InitScore /\ [][NextScore]_vars

(* The identifiers the result records predict.                             *)
PredictedIds == {strip(id) : id \in RecordIds(results, workload)}

FlatScored == pc = "scored" /\ workload \in Flat /\ gt_data # <<>> /\ score.stage = "scored"

(* C6 (as stated): flat variant, non-empty index: when the predicted       *)
(* identifiers are exactly the ground-truth identifiers, precision, recall *)
(* and F1 are 1.0; when nothing is predicted, recall and F1 are 0.0.       *)
C6_AllPredictedScoresOne_AnyLabels ==
    FlatScored =>
        /\ PredictedIds = KeySet(gt_data) =>
              score.p = One /\ score.r = One /\ score.f1 = One
        /\ PredictedIds = {} => score.r = Zero /\ score.f1 = Zero

(* C6 (amended): flat variant, non-empty index: when the predicted         *)
(* identifiers are exactly the ground-truth identifiers and every          *)
(* ground-truth label is 1, precision, recall and F1 are 1.0; when nothing *)
(* is predicted, recall and F1 are 0.0.                                    *)
C6_AllPredictedScoresOne ==
    FlatScored =>
        /\ (/\ PredictedIds = KeySet(gt_data)
            /\ \A i \in DOMAIN gt_data : gt_data[i][2] = 1) =>
              score.p = One /\ score.r = One /\ score.f1 = One
        /\ PredictedIds = {} => score.r = Zero /\ score.f1 = Zero

C6_Witness ==
    /\ FlatScored /\ workload = "enron"
    /\ gt_data = << << <<"a">>, 1 >>, << <<"b">>, 1 >> >>
    /\ PredictedIds = { <<"a">>, <<"b">> }
    /\ score.f1 = One

(* A record whose filename contains no source key of the index.            *)
NoKeyIn(record) ==
    LET raw   == IF HasAttr(record, <<"filename">>) THEN record[<<"filename">>] ELSE <<>>
        fname == IF raw = None THEN <<>> ELSE raw
    IN  \A k \in KeySet(gt_data) : ~Contains(lower(fname), k)

Without(s, i) == SubSeq(s, 1, i - 1) \o SubSeq(s, i + 1, Len(s))

(* C7: nested variant: a record whose filename contains no source key adds *)
(* no entry to either vector, so the outcome is the same with the record   *)
(* taken out, wherever it stands; when every record is of that kind the    *)
(* score is 0.0.                                                           *)
C7_UnmatchedRecordIsNeutral ==
    (pc = "scored" /\ workload = "medical-schema-matching") =>
        /\ \A i \in DOMAIN results :
              NoKeyIn(results[i]) =>
                 LET without == compute_f1(Without(results, i), gt_data, workload)
                 IN  /\ without.y_true = score.y_true
                     /\ without.y_pred = score.y_pred
                     /\ without.f1 = score.f1
        /\ (\A i \in DOMAIN results : NoKeyIn(results[i])) =>
              score.y_true = <<>> /\ score.f1 = Zero

C7_Witness ==
    /\ pc = "scored" /\ workload = "medical-schema-matching"
    /\ Len(results) = 2
    /\ NoKeyIn(results[1]) /\ ~NoKeyIn(results[2])
    /\ score.stage = "scored" /\ score.f1 = One

-----------------------------------------------------------------------------
(* write_results_and_plans.                                                *)
(*                                                                         *)
(* A run output: [iterable, df_ok, records, es].  iterable: it can be      *)
(* iterated; df_ok: pd.DataFrame accepts it; records: its result records;  *)
(* es: its execution_stats attribute, [kind, plan_stats] with kind       *)
(* "absent" (no such attribute), "none" or "object".  plan_stats is        *)
(* [kind, values] with kind "absent", "none", "malformed" (a true value    *)
(* that is no mapping) or "mapping", values being the mapping's values in  *)
(* order.  A per-plan stats entry is a function from attribute names to    *)
(* values (None, or a text standing for the number or the string).         *)
DefaultNumber == <<"0.0">>

CostAliases == <<"total_plan_cost", "total_cost", "cost", "plan_cost">>
TimeAliases == <<"total_plan_time", "total_time", "time", "plan_time">>

(* lines 156-160 with `if hasattr(...)` for `is not None`                  *)
RECURSIVE FirstPresent_NoneCounts(_, _, _)
FirstPresent_NoneCounts(first_ps, aliases, default) ==
    IF aliases = <<>> THEN default
    ELSE IF HasAttr(first_ps, Head(aliases)) THEN first_ps[Head(aliases)]
    ELSE FirstPresent_NoneCounts(first_ps, Tail(aliases), default)

(* lines 156-160 / 161-165: the first alias whose value is not None        *)
RECURSIVE FirstPresent(_, _, _)
FirstPresent(first_ps, aliases, default) ==
    IF aliases = <<>> THEN default
    ELSE IF GetAttr(first_ps, Head(aliases), None) # None
         THEN first_ps[Head(aliases)]
    ELSE FirstPresent(first_ps, Tail(aliases), default)

(* line 153: es is not None and getattr(es, "plan_stats", None) is true    *)
HasPlanStats(res) ==
    /\ res.es.kind = "object"
    /\ \/ res.es.plan_stats.kind = "malformed"
       \/ res.es.plan_stats.kind = "mapping" /\ res.es.plan_stats.values # <<>>

(* lines 149-167: an exception inside the try (plan_stats.values() of a    *)
(* value that is no mapping) keeps the defaults                            *)
Probe(res) ==
    IF HasPlanStats(res) /\ res.es.plan_stats.kind = "mapping"
    THEN LET first_ps == res.es.plan_stats.values[1]
         IN  [cost |-> FirstPresent(first_ps, CostAliases, DefaultNumber),
              time |-> FirstPresent(first_ps, TimeAliases, DefaultNumber)]
    ELSE [cost |-> DefaultNumber, time |-> DefaultNumber]

(* line 172: compute_f1(res, ...) iterates res unless it returns at        *)
(* line 92 or the workload is unknown                                      *)
RunScore(res, gt, wl) ==
    IF ~res.iterable /\ gt # <<>> /\ wl \in Flat \cup {"medical-schema-matching"}
    THEN Returned("raised", <<>>, <<>>, Zero, Zero, Zero)
    ELSE compute_f1(res.records, gt, wl)

(* lines 174-176: res.execution_stats, .plan_stats, list(...values())[0]   *)
StatsFails(res) ==
    \/ res.es.kind # "object"
    \/ res.es.plan_stats.kind # "mapping"
    \/ res.es.plan_stats.values = <<>>

(* line 178 read as getattr(stats, "plan_str", None)                       *)
PlanStrFails_Defaulted(res) == FALSE

(* line 178: stats.plan_str of an entry without the attribute              *)
PlanStrFails(res) == ~HasAttr(res.es.plan_stats.values[1], "plan_str")

(* lines 170-178: the line that raises, or "none"                          *)
RunFailure(res, gt, wl) ==
    IF ~res.df_ok THEN "DataFrame"
    ELSE IF RunScore(res, gt, wl).stage = "raised" THEN "compute_f1"
    ELSE IF StatsFails(res) THEN "execution_stats"
    ELSE IF PlanStrFails(res) THEN "plan_str"
    ELSE "none"

(* line 178 *)
PlanText(res) == GetAttr(res.es.plan_stats.values[1], "plan_str", None)

(* line 180 with the name fixed to 1.txt                                   *)
PlanFileName_Fixed(i) == <<"1", ".txt">>

(* lines 180, 194: f"{idx}.txt"                                            *)
PlanFileName(i) == <<ToString(i), ".txt">>

(* line 190 counted from 0                                                 *)
StrategyLabel_ZeroBased(i) == <<"Plan-", ToString(i - 1)>>

(* line 190: f"Plan-{idx}"                                                 *)
StrategyLabel(i) == <<"Plan-", ToString(i)>>

(* lines 188-195 *)
SummaryRow(wl, i, time_sec, cost, f1) ==
    [Workload |-> wl, Strategy |-> StrategyLabel(i), Time |-> time_sec,
     Cost |-> cost, F1 |-> f1, Plan_File |-> PlanFileName(i)]

(* The plan-text directory: a function from the names of the files in it   *)
(* to their contents.                                                      *)
Exists(fs, name) == name \in DOMAIN fs
WriteFile(fs, name, content) ==
    [n \in DOMAIN fs \cup {name} |-> IF n = name THEN content ELSE fs[n]]

(* lines 181-185: open(..., "w") and f.write(text).  "open_failed" leaves  *)
(* the directory as it is, "write_failed" leaves the file truncated; a     *)
(* text that is no string cannot be written                                *)
WriteOutcomes(text) ==
    IF text = None THEN {"open_failed", "write_failed"}
    ELSE {"ok", "open_failed", "write_failed"}

AfterWrite(fs, name, text, outcome) ==
    CASE outcome = "ok"           -> WriteFile(fs, name, text)
      [] outcome = "write_failed" -> WriteFile(fs, name, <<>>)
      [] OTHER                    -> fs

(* lines 135-145: list(results_iterable), or the value wrapped             *)
Materialize ==
    /\ pc = "start"
    /\ results' = IF results_iterable.kind = "list"
                  THEN results_iterable.runs
                  ELSE <<results_iterable.run>>
    /\ all_results' = <<>>
    /\ idx' = 0
    /\ pc' = "loop"
    /\ UNCHANGED <<workload, gt_path, dataset_dir, loaded, gt_data, score>>
    /\ UNCHANGED <<results_iterable, plan_files, output_csv, probe, io>>

(* lines 147-196: one pass of the loop                                     *)
ProcessRun ==
    /\ pc = "loop"
    /\ idx < Len(results)
    /\ LET res     == results[idx + 1]
           failure == RunFailure(res, gt_data, workload)
       IN  /\ idx' = idx + 1
           /\ probe' = Probe(res)
           /\ IF failure # "none"
              THEN /\ pc' = "failed"
                   /\ score' = IF failure = "DataFrame" THEN score
                                ELSE RunScore(res, gt_data, workload)
                   /\ UNCHANGED <<all_results, plan_files, io>>
              ELSE /\ pc' = "loop"
                   /\ score' = RunScore(res, gt_data, workload)
                   /\ \E outcome \in WriteOutcomes(PlanText(res)) :
                        /\ io' = Append(io, outcome)
                        /\ plan_files' = AfterWrite(plan_files, PlanFileName(idx'),
                                                    PlanText(res), outcome)
                   /\ all_results' = Append(all_results,
                                            SummaryRow(workload, idx', probe'.time,
                                                       probe'.cost, score'.f1))
    /\ UNCHANGED <<workload, gt_path, dataset_dir, loaded, gt_data, results>>
    /\ UNCHANGED <<results_iterable, output_csv>>

(* lines 199-200: the table is written, or to_csv raises                   *)
SaveCsv ==
    /\ pc = "loop"
    /\ idx = Len(results)
    /\ \/ /\ output_csv' = [writes |-> output_csv.writes + 1, rows |-> all_results]
          /\ pc' = "done"
       \/ /\ output_csv' = output_csv
          /\ pc' = "failed"
    /\ UNCHANGED <<workload, gt_path, dataset_dir, loaded, gt_data, results, score>>
    /\ UNCHANGED <<results_iterable, idx, all_results, plan_files, probe, io>>

NextReport == Materialize \/ ProcessRun \/ SaveCsv

(* Inputs of the reporting pass.                                           *)
NoStats(kind) == [kind |-> kind, plan_stats |-> [kind |-> "absent", values |-> <<>>]]
Stats(kind, values) == [kind |-> "object", plan_stats |-> [kind |-> kind, values |-> values]]

Run(records, es) == [iterable |-> TRUE, df_ok |-> TRUE, records |-> records, es |-> es]

EntryA == ("total_plan_cost" :> <<"c1">>) @@ ("total_plan_time" :> <<"t1">>)
          @@ ("plan_str" :> <<"planA">>)
EntryB == ("total_plan_cost" :> None) @@ ("cost" :> <<"c3">>) @@ ("plan_cost" :> <<"c4">>)
          @@ ("plan_str" :> <<"planB">>)
EntryNoneText == ("total_cost" :> <<"c2">>) @@ ("time" :> <<"t3">>) @@ ("plan_str" :> None)
EntryNoText == ("total_plan_cost" :> <<"c1">>) @@ ("plan_time" :> <<"t4">>)

ReportRuns ==
    { Run(<< Record(<<"a">>, <<"a">>) >>, Stats("mapping", <<EntryA>>)),
      Run(<<>>, Stats("mapping", <<EntryB, EntryA>>)),
      Run(<<>>, Stats("mapping", <<EntryNoneText>>)),
      Run(<<>>, Stats("mapping", <<EntryNoText>>)),
      Run(<<>>, Stats("mapping", <<>>)),
      Run(<<>>, NoStats("absent")),
      Run(<<>>, NoStats("none")),
      Run(<< Record(None, None) >>, Stats("mapping", <<EntryA>>)) }

(* A single value that cannot be iterated.                                 *)
ScalarRuns ==
    {[iterable |-> FALSE, df_ok |-> d, records |-> <<>>, es |-> e] :
        d \in BOOLEAN, e \in {NoStats("absent"), Stats("mapping", <<EntryA>>)}}

ReportInputs ==
    {[kind |-> "list", runs |-> r] : r \in SeqsUpTo(ReportRuns, MaxRuns)}
    \cup {[kind |-> "scalar", run |-> x] : x \in ScalarRuns}

StaleText == <<"stale">>

InitReport ==
    /\ workload = "enron"
    /\ gt_path = [kind |-> "empty", table |-> NoTable]
    /\ dataset_dir = [kind |-> "missing", names |-> {}]
    /\ loaded = NotCalled
    /\ gt_data \in { <<>>, << << <<"a">>, 1 >> >> }
    /\ results = <<>>
    /\ score = NotScored
    /\ pc = "start"
    /\ results_iterable \in ReportInputs
    /\ idx = 0
    /\ all_results = <<>>
    /\ plan_files \in { <<>>, (PlanFileName(1) :> StaleText) }
    /\ output_csv = NotWritten
    /\ probe = NoProbe
    /\ io = <<>>

SpecReport == InitReport /\ [][NextReport]_vars

(* The probing of cost and time on every shape of execution statistics:    *)
(* one run, its first per-plan stats entry drawn from every combination of *)
(* the aliases being absent, None or set.                                  *)
AliasValue(a) ==
    CASE a = "total_plan_cost" -> <<"c1">> [] a = "total_cost" -> <<"c2">>
      [] a = "cost"            -> <<"c3">> [] a = "plan_cost"  -> <<"c4">>
      [] a = "total_plan_time" -> <<"t1">> [] a = "total_time" -> <<"t2">>
      [] a = "time"            -> <<"t3">> [] a = "plan_time"  -> <<"t4">>

AliasNames == Range(CostAliases) \cup Range(TimeAliases)

ProbeEntries ==
    UNION {{[a \in present |-> IF a \in none THEN None ELSE AliasValue(a)]
            @@ ("plan_str" :> <<"planA">>) : none \in SUBSET present}
           : present \in SUBSET AliasNames}

ProbeStats ==
    {NoStats("absent"), NoStats("none")}
    \cup {Stats(k, <<>>) : k \in {"absent", "none", "malformed", "mapping"}}
    \cup {Stats("mapping", <<e>>) : e \in ProbeEntries}
    \cup {Stats("mapping", <<e, EntryB>>) : e \in ProbeEntries}

InitProbe ==
    /\ workload = "enron"
    /\ gt_path = [kind |-> "empty", table |-> NoTable]
    /\ dataset_dir = [kind |-> "missing", names |-> {}]
    /\ loaded = NotCalled
    /\ gt_data = <<>>
    /\ results = <<>>
    /\ score = NotScored
    /\ pc = "start"
    /\ results_iterable \in {[kind |-> "list", runs |-> <<Run(<<>>, e)>>] : e \in ProbeStats}
    /\ idx = 0
    /\ all_results = <<>>
    /\ plan_files = <<>>
    /\ output_csv = NotWritten
    /\ probe = NoProbe
    /\ io = <<>>

SpecProbe == InitProbe /\ [][NextReport]_vars

-----------------------------------------------------------------------------
(* Claims about the reporting pass.                                        *)
Usable(run) ==
    /\ run.es.kind = "object"
    /\ run.es.plan_stats.kind = "mapping"
    /\ run.es.plan_stats.values # <<>>

FirstEntry(run) == run.es.plan_stats.values[1]

(* The run lacks its execution statistics or its plan-description text:    *)
(* the object, the mapping, its first entry or the entry's plan_str.       *)
Missing(run) == ~Usable(run) \/ "plan_str" \notin DOMAIN FirstEntry(run)

FirstMissing == CHOOSE k \in DOMAIN results :
                   Missing(results[k]) /\ \A j \in 1..(k - 1) : ~Missing(results[j])

C3_PlanFileRoundTrip_Always ==
    \A i \in DOMAIN all_results :
        /\ all_results[i].Plan_File = <<ToString(i), ".txt">>
        /\ Exists(plan_files, <<ToString(i), ".txt">>)
        /\ plan_files[<<ToString(i), ".txt">>] = FirstEntry(results[i])["plan_str"]

(* C3 (amended): every run that has a row has Plan_File "<idx>.txt"; when  *)
(* the write of that file did not fail (a failed write is swallowed and    *)
(* the row is added all the same), the file exists and holds exactly the   *)
(* plan text of the run's first per-plan stats entry.                      *)
C3_PlanFileRoundTrip ==
    /\ \A i \in DOMAIN all_results :
          /\ all_results[i].Plan_File = <<ToString(i), ".txt">>
          /\ io[i] = "ok" =>
                /\ Exists(plan_files, <<ToString(i), ".txt">>)
                /\ plan_files[<<ToString(i), ".txt">>] = FirstEntry(results[i])["plan_str"]
    /\ output_csv.writes = 1 => output_csv.rows = all_results

C3_Witness ==
    /\ pc = "done" /\ Len(output_csv.rows) = 2
    /\ io = <<"ok", "ok">>
    /\ output_csv.rows[2].Plan_File = <<"2", ".txt">>
    /\ plan_files[<<"2", ".txt">>] = <<"planB">>
    /\ plan_files[<<"1", ".txt">>] = <<"planA">>

(* The value of the first alias, in the order given, that the entry has    *)
(* with a value other than None.                                           *)
Val(e, a) == IF a \in DOMAIN e THEN e[a] ELSE None

ExpectedCost(run) ==
    IF ~Usable(run) THEN <<"0.0">>
    ELSE LET e == FirstEntry(run) IN
         IF Val(e, "total_plan_cost") # None THEN Val(e, "total_plan_cost")
         ELSE IF Val(e, "total_cost") # None THEN Val(e, "total_cost")
         ELSE IF Val(e, "cost") # None THEN Val(e, "cost")
         ELSE IF Val(e, "plan_cost") # None THEN Val(e, "plan_cost")
         ELSE <<"0.0">>

ExpectedTime(run) ==
    IF ~Usable(run) THEN <<"0.0">>
    ELSE LET e == FirstEntry(run) IN
         IF Val(e, "total_plan_time") # None THEN Val(e, "total_plan_time")
         ELSE IF Val(e, "total_time") # None THEN Val(e, "total_time")
         ELSE IF Val(e, "time") # None THEN Val(e, "time")
         ELSE IF Val(e, "plan_time") # None THEN Val(e, "plan_time")
         ELSE <<"0.0">>

(* The summary rows so far are one per run entered without failure, in     *)
(* arrival order, numbered from 1.                                         *)
C4_Rows ==
    /\ pc # "start" =>
          results = IF results_iterable.kind = "list" THEN results_iterable.runs
                    ELSE <<results_iterable.run>>
    /\ Len(all_results) <= Len(results)
    /\ \A i \in DOMAIN all_results :
          /\ all_results[i].Strategy = <<"Plan-", ToString(i)>>
          /\ all_results[i].Plan_File = <<ToString(i), ".txt">>
          /\ all_results[i].Workload = workload
          /\ all_results[i].Cost = ExpectedCost(results[i])
          /\ all_results[i].Time = ExpectedTime(results[i])
          /\ all_results[i].F1 = compute_f1(results[i].records, gt_data, workload).f1
    /\ pc = "done" =>
          /\ Len(output_csv.rows) = Len(results)
          /\ output_csv.rows = all_results

C4_AppendOnly ==
    \/ all_results' = all_results
    \/ /\ Len(all_results') = Len(all_results) + 1
       /\ SubSeq(all_results', 1, Len(all_results)) = all_results

(* C4: on completion the table holds one row per run, in arrival order,    *)
(* the i-th with Strategy "Plan-i" and Plan_File "i.txt", i from 1; the    *)
(* accumulated rows only grow by appending and no row already appended is  *)
(* changed or removed; a single value that cannot be iterated is processed *)
(* as a one-element sequence.                                              *)
C4_OneRowPerRunInOrder == [](C4_Rows) /\ [][C4_AppendOnly]_vars

C4_Witness ==
    /\ pc = "done" /\ Len(output_csv.rows) = 3
    /\ results[1] # results[2]
    /\ output_csv.rows[3].Strategy = <<"Plan-", "3">>
    /\ output_csv.rows[1].Cost # output_csv.rows[2].Cost

(* C5: for every run entered, probing has ended without an exception with  *)
(* cost = the first of total_plan_cost, total_cost, cost, plan_cost that   *)
(* the first per-plan stats entry has with a value other than None, time   *)
(* likewise over total_plan_time, total_time, time, plan_time, and each    *)
(* 0.0 when the statistics are absent, empty or malformed or no alias      *)
(* matches.                                                                *)
C5_ProbeTakesFirstPresentAlias ==
    idx >= 1 =>
        /\ probe.cost = ExpectedCost(results[idx])
        /\ probe.time = ExpectedTime(results[idx])
        /\ Len(all_results) = idx =>
              /\ all_results[idx].Cost = probe.cost
              /\ all_results[idx].Time = probe.time

C5_Witness ==
    /\ idx = 1 /\ Usable(results[1])
    /\ Val(FirstEntry(results[1]), "total_plan_cost") = None
    /\ "total_plan_cost" \in DOMAIN FirstEntry(results[1])
    /\ "total_cost" \notin DOMAIN FirstEntry(results[1])
    /\ Val(FirstEntry(results[1]), "cost") = <<"c3">>
    /\ Val(FirstEntry(results[1]), "plan_cost") = <<"c4">>
    /\ probe.cost = <<"c3">>
    /\ DOMAIN FirstEntry(results[1]) \cap Range(TimeAliases) = {}
    /\ probe.time = <<"0.0">>
    /\ Len(all_results) = 1

====
